---- MODULE Spec2Model ----
(***************************************************************************)
(* Model of ratlib/api/http.py: the URL joiner `urljoin` and the request   *)
(* dispatcher `call`, with the `requests` transport and the log sink as    *)
(* external collaborators.                                                 *)
(*                                                                         *)
(* Python values are tagged records [t, v]: a str is a sequence of          *)
(* one-character strings, a list is a sequence of str values, None has the  *)
(* tag "none".  Python exceptions that leave a function are records with    *)
(* the exception's class name.                                             *)
(***************************************************************************)
EXTENDS Integers, Sequences, FiniteSets, TLC

VARIABLES
    parts, joined,                                \* urljoin: arguments, return value
    method, uri, data, statuses, log, headers,    \* call: arguments
    pc,                                           \* call: position in the body
    url, payload,                                 \* call: locals `uri`, `data` after normalisation
    wire,                                         \* transport invocations made so far
    sink,                                         \* writes made to the log sink so far
    response,                                     \* call: local `response`
    answer,                                       \* what the transport did when invoked
    outcome                                       \* how call() ended

vars == <<parts, joined, method, uri, data, statuses, log, headers, pc, url,
          payload, wire, sink, response, answer, outcome>>

----------------------------------------------------------------------------
(* Bounds *)

MaxSegLen == 2
MaxParts == 3
MaxErrors == 2

----------------------------------------------------------------------------
(* Python values *)

None == [t |-> "none", v |-> <<>>]
Str(s) == [t |-> "str", v |-> s]
List(l) == [t |-> "list", v |-> l]

Alphabet == {"a", "/"}

RECURSIVE SeqsUpTo(_, _)
SeqsUpTo(S, n) ==
    IF n = 0 THEN {<<>>}
    ELSE LET shorter == SeqsUpTo(S, n - 1)
         IN  shorter \cup {Append(s, x) : s \in {q \in shorter : Len(q) = n - 1}, x \in S}

Segments == {Str(s) : s \in SeqsUpTo(Alphabet, MaxSegLen)}

\* `not x` for a str, a list or None
Falsy(x) == Len(x.v) = 0

\* x[0] == '/' and x[-1] == '/' (an element of a list is a str value)
StartsWithSlash(x) ==
    IF x.t = "str" THEN Head(x.v) = "/" ELSE Head(x.v).v = <<"/">>
EndsWithSlash(x) ==
    IF x.t = "str" THEN x.v[Len(x.v)] = "/" ELSE x.v[Len(x.v)].v = <<"/">>

\* x[1:]
DropFirst(x) == [t |-> x.t, v |-> Tail(x.v)]

----------------------------------------------------------------------------
(* urljoin *)

\* _gen: the pieces yielded for ps[i..], given the loop variable prev
RECURSIVE gen(_, _, _)
gen(ps, i, prev) ==
    IF i > Len(ps) THEN <<>>
    ELSE LET part == ps[i] IN
         IF Falsy(part) THEN gen(ps, i + 1, prev)
         ELSE IF Falsy(prev) THEN <<part>> \o gen(ps, i + 1, part)
         ELSE IF EndsWithSlash(prev) # StartsWithSlash(part)
              THEN <<part>> \o gen(ps, i + 1, part)
         ELSE IF StartsWithSlash(part)
              THEN <<DropFirst(part)>> \o gen(ps, i + 1, DropFirst(part))
         ELSE <<Str(<<"/">>), part>> \o gen(ps, i + 1, part)

RECURSIVE Concat(_)
Concat(pieces) ==
    IF pieces = <<>> THEN <<>> ELSE Head(pieces).v \o Concat(Tail(pieces))

TypeError == [t |-> "TypeError", v |-> <<>>]

\* "".join(...) accepts str items only
StrJoin(pieces) ==
    IF \E k \in 1..Len(pieces) : pieces[k].t # "str" THEN TypeError
    ELSE Str(Concat(pieces))

urljoin(ps) == StrJoin(gen(ps, 1, None))

NotRun == [t |-> "notrun", v |-> <<>>]

----------------------------------------------------------------------------
(* Arguments of call() *)

Methods == {"GET", "get", "Post", "PUT", "DELETE"}

\* str.upper() on the method names above
upper(m) ==
    CASE m = "get" -> "GET"
      [] m = "Post" -> "POST"
      [] OTHER -> m

\* request_methods: the registry, keyed by the upper-case verb
request_methods ==
    [k \in {"GET", "PUT", "POST"} |->
        CASE k = "GET" -> "requests.get"
          [] k = "PUT" -> "requests.put"
          [] k = "POST" -> "requests.post"]

\* uri: a str, or a sequence of path segments
UriStrings == {Str(<<"a", "/", "a">>)}
UriLists == {List(<<>>), List(<<Str(<<"a", "/">>), Str(<<"/", "a">>)>>)}

\* data: None, a dict (a set of key/value pairs) or a JSON-formatted str
Dicts == {{}, {<<"k", 1>>}}
DataNone == [t |-> "none", v |-> {}]
DataDict(d) == [t |-> "dict", v |-> d]
DataText(s) == [t |-> "text", v |-> s]
Texts == {"", "{\"k\": 1}", "{bad"}

\* statuses: None or a set of status codes
StatusesNone == [isNone |-> TRUE, set |-> {}]
StatusesSet(S) == [isNone |-> FALSE, set |-> S]
StatusSets == {{}, {200, 400}, {200, 404}}

HeaderValues == {"None", "Authorization"}

----------------------------------------------------------------------------
(* The transport's answers *)

StatusCodes == {200, 399, 400, 401, 404, 599, 600}

\* one entry of an `errors` array: a mapping with optional name/message
\* ("None" is what dict.get returns for an absent key), or a bare string
ErrorEntries ==
    { [t |-> "object", name |-> "E1", message |-> "missing"],
      [t |-> "object", name |-> "None", message |-> "None"],
      [t |-> "string", name |-> "None", message |-> "None"] }

\* A response body.  t = "object", "array", "string", "null": the JSON value
\* the body decodes to; t = "text": text that is not JSON; t = "undecodable":
\* bytes that do not decode as text.  items: the elements of an array, or
\* the words among data/errors that occur in a string.
Body(t, hasData, hasErrors, errors, items) ==
    [t |-> t, hasData |-> hasData, hasErrors |-> hasErrors, errors |-> errors,
     items |-> items]

NoBody == Body("absent", FALSE, FALSE, <<>>, {})

ObjectBodies ==
    {Body("object", d, FALSE, <<>>, {}) : d \in BOOLEAN}
    \cup {Body("object", d, TRUE, e, {}) :
             d \in BOOLEAN, e \in SeqsUpTo(ErrorEntries, MaxErrors)}

OtherBodies ==
    { Body("null", FALSE, FALSE, <<>>, {}),
      Body("array", FALSE, FALSE, <<>>, {}),
      Body("array", FALSE, FALSE, <<>>, {"data"}),
      Body("string", FALSE, FALSE, <<>>, {"errors"}),
      Body("text", FALSE, FALSE, <<>>, {}),
      Body("undecodable", FALSE, FALSE, <<>>, {}) }

Bodies == ObjectBodies \cup OtherBodies

NoResponse == [isNone |-> TRUE, status_code |-> 0, body |-> NoBody]
Response(s, b) == [isNone |-> FALSE, status_code |-> s, body |-> b]

\* what one invocation of the transport does: returns a response, raises
\* requests.exceptions.HTTPError (ex.response carries the status), or
\* raises another RequestException (with or without ex.args[0])
TransportResponses ==
    {[class |-> "Response", response |-> Response(s, b), args |-> <<>>] :
        s \in StatusCodes, b \in Bodies}
TransportFailures ==
    {[class |-> "exc.HTTPError", response |-> Response(s, NoBody),
      args |-> <<"status failure">>] : s \in {404, 599}}
    \cup {[class |-> "exc.RequestException", response |-> NoResponse, args |-> a] :
             a \in {<<>>, <<"connection refused">>}}
NoAnswer == [class |-> "none", response |-> NoResponse, args |-> <<>>]

----------------------------------------------------------------------------
(* Exceptions and results *)

Raise(type, code, details, json) ==
    [kind |-> "raise", type |-> type, code |-> code, details |-> details,
     json |-> json]

\* the classes of the module; an absent code or details is "None", an
\* absent json is NoBody; the code of an HTTPError is the integer status
APIError(code, details, json) == Raise("APIError", code, details, json)
BadResponseError(code, details, json) == Raise("BadResponseError", code, details, json)
BadJSONError == Raise("BadJSONError", "2608", "API didn't return valid JSON.", NoBody)
HTTPError(code, details) == Raise("HTTPError", code, details, NoBody)

\* a Python exception that is none of the module's classes
Escaped(class) == Raise(class, "None", "None", NoBody)

Return(result) ==
    [kind |-> "return", type |-> "", code |-> "None", details |-> "None",
     json |-> result]
Running ==
    [kind |-> "running", type |-> "", code |-> "None", details |-> "None",
     json |-> NoBody]
NoException == Running

TypedErrors ==
    {"HTTPError", "BadResponseError", "BadJSONError", "UnsupportedMethodError",
     "APIError"}

----------------------------------------------------------------------------
(* call(): argument normalisation and the pre-request log *)

\* if not isinstance(uri, str): uri = urljoin(uri)
ResolveUri(u) == IF u.t = "str" THEN u ELSE urljoin(<<u>>)

\* json.dumps on the dicts above
dumps(d) == IF d = {} THEN "{}" ELSE "{\"k\": 1}"

\* json.loads: the dict a text denotes, or a JSONDecodeError
loads(s) ==
    CASE s = "{}" -> [ok |-> TRUE, v |-> {}]
      [] s = "{\"k\": 1}" -> [ok |-> TRUE, v |-> {<<"k", 1>>}]
      [] OTHER -> [ok |-> FALSE, v |-> {}]

\* data = json.loads((json.dumps(data) if dict) or '{}')
NormalizeData(d) ==
    LET s == IF d.t = "dict" THEN dumps(d.v)
             ELSE IF d.t = "text" THEN d.v
             ELSE ""
    IN  loads(IF s = "" THEN "{}" ELSE s)

\* logprint: print to the sink when one was supplied, else nothing
logprint(snk, lg, entries) == IF lg THEN snk \o entries ELSE snk

PreEntry(m, u, p) == [kind |-> "pre", method |-> upper(m), uri |-> u, data |-> p]

----------------------------------------------------------------------------
(* call(): dispatch, status policy, exception handlers, finally *)

\* the transport function chosen and the arguments it is given
Invoke(m, u, p, h) ==
    IF m \in DOMAIN request_methods
    THEN [fn |-> request_methods[m], method |-> "", uri |-> u, json |-> p,
          headers |-> h]
    ELSE [fn |-> "requests.request", method |-> upper(m), uri |-> u, json |-> p,
          headers |-> h]

\* variant: every status from 400 upwards raises
raise_for_status_unbounded(s) == 400 <= s

\* requests.Response.raise_for_status: TRUE when it raises
raise_for_status(s) == 400 <= s /\ s < 600

\* str() of the HTTPError that raise_for_status raises
StatusMessage(s) ==
    ToString(s) \o (IF s < 500 THEN " Client Error" ELSE " Server Error")

\* str(ex)
ExStr(ex) == IF Len(ex.args) = 0 THEN "" ELSE ex.args[1]

\* variant: the RequestException clause comes first and takes every failure
ExceptClauses_request_first(ex) ==
    [raised |-> BadResponseError("None", "None", NoBody),
     writes |-> <<[kind |-> "message", text |-> ExStr(ex)]>>]

\* the except clauses: what is raised instead, and what is logged first
ExceptClauses(ex) ==
    IF ex.class = "exc.HTTPError"
    THEN [raised |-> HTTPError(ex.response.status_code, ExStr(ex)), writes |-> <<>>]
    ELSE [raised |-> BadResponseError("None", "None", NoBody),
          writes |-> <<[kind |-> "message", text |-> ExStr(ex)]>>]

\* `not statuses`: None or an empty set
NotStatuses(st) == st.isNone \/ st.set = {}

\* the try block after the transport answered with t
TryBlock(t, st) ==
    IF t.class # "Response" THEN ExceptClauses(t)
    ELSE LET s == t.response.status_code IN
         IF NotStatuses(st)
         THEN IF s # 400 /\ raise_for_status(s)
              THEN ExceptClauses([class |-> "exc.HTTPError", response |-> t.response,
                                  args |-> <<StatusMessage(s)>>])
              ELSE [raised |-> NoException, writes |-> <<>>]
         ELSE IF s \notin st.set
              THEN [raised |-> HTTPError(s, "Unexpected Status Code " \o ToString(s)),
                    writes |-> <<>>]
              ELSE [raised |-> NoException, writes |-> <<>>]

\* variant: response.text is read without the inner try/except, so a body
\* that does not decode leaves no entry
Finally_unguarded_text(resp) ==
    IF ~resp.isNone /\ resp.body.t # "undecodable"
    THEN <<[kind |-> "post", status |-> resp.status_code,
            placeholder |-> FALSE, body |-> resp.body]>>
    ELSE <<>>

\* the finally block: the post-response entry, when there is a response
Finally(resp) ==
    IF ~resp.isNone
    THEN <<[kind |-> "post", status |-> resp.status_code,
            placeholder |-> (resp.body.t = "undecodable"), body |-> resp.body]>>
    ELSE <<>>

----------------------------------------------------------------------------
(* call(): parsing and classification *)

\* key in result (Python `in` on a dict, a list or a str)
In(key, result) ==
    IF result.t = "object"
    THEN IF key = "errors" THEN result.hasErrors ELSE result.hasData
    ELSE key \in result.items

\* variant: the data check comes before the errors check
Classify_data_first(result) ==
    IF result.t = "null" THEN Escaped("TypeError")
    ELSE IF In("data", result) THEN Return(result)
    ELSE IF In("errors", result)
    THEN IF result.t # "object" THEN Escaped("TypeError")
         ELSE IF Len(result.errors) = 0 THEN Escaped("IndexError")
         ELSE LET err == result.errors[1] IN
              IF err.t # "object" THEN Escaped("AttributeError")
              ELSE APIError(err.name, err.message, result)
    ELSE BadResponseError("None",
             "Did not receive a data field in a non-error response.", result)

\* lines 154-160
Classify(result) ==
    IF result.t = "null" THEN Escaped("TypeError")
    ELSE IF In("errors", result)
    THEN IF result.t # "object" THEN Escaped("TypeError")
         ELSE IF Len(result.errors) = 0 THEN Escaped("IndexError")
         ELSE LET err == result.errors[1] IN
              IF err.t # "object" THEN Escaped("AttributeError")
              ELSE APIError(err.name, err.message, result)
    ELSE IF ~In("data", result)
    THEN BadResponseError("None",
             "Did not receive a data field in a non-error response.", result)
    ELSE Return(result)

\* response.json(), then the classification
ParseResponse(resp) ==
    IF resp.body.t \in {"text", "undecodable"} THEN BadJSONError
    ELSE Classify(resp.body)

----------------------------------------------------------------------------
(* The state machine of one call() *)

JoinIdle == parts = <<>> /\ joined = NotRun

Init ==
    /\ JoinIdle
    /\ method \in Methods
    /\ uri \in UriStrings \cup UriLists
    /\ \/ data = DataNone
       \/ \E d \in Dicts : data = DataDict(d)
       \/ \E s \in Texts : data = DataText(s)
    /\ \/ statuses = StatusesNone
       \/ \E S \in StatusSets : statuses = StatusesSet(S)
    /\ log \in BOOLEAN
    /\ headers \in HeaderValues
    /\ pc = "call"
    /\ url = None
    /\ payload = {}
    /\ wire = <<>>
    /\ sink = <<>>
    /\ response = NoResponse
    /\ answer = NoAnswer
    /\ outcome = Running

\* lines 96-117
Prepare ==
    /\ pc = "call"
    /\ LET u == ResolveUri(uri)
           n == NormalizeData(data)
       IN  IF u.t = "TypeError"
           THEN /\ pc' = "done"
                /\ outcome' = Escaped("TypeError")
                /\ UNCHANGED <<url, payload, sink>>
           ELSE IF ~n.ok
           THEN /\ pc' = "done"
                /\ outcome' = Escaped("JSONDecodeError")
                /\ url' = u
                /\ UNCHANGED <<payload, sink>>
           ELSE /\ pc' = "dispatch"
                /\ url' = u
                /\ payload' = n.v
                /\ sink' = logprint(sink, log, <<PreEntry(method, u, n.v)>>)
                /\ UNCHANGED outcome
    /\ UNCHANGED <<parts, joined, method, uri, data, statuses, log, headers,
                   wire, response, answer>>

\* lines 118-148, for one answer t of the transport
Dispatch(t) ==
    /\ pc = "dispatch"
    /\ LET r == TryBlock(t, statuses)
           resp == IF t.class = "Response" THEN t.response ELSE NoResponse
       IN  /\ wire' = Append(wire, Invoke(method, url, payload, headers))
           /\ answer' = t
           /\ response' = resp
           /\ sink' = logprint(logprint(sink, log, r.writes), log, Finally(resp))
           /\ IF r.raised.kind = "raise"
              THEN pc' = "done" /\ outcome' = r.raised
              ELSE pc' = "parse" /\ UNCHANGED outcome
    /\ UNCHANGED <<parts, joined, method, uri, data, statuses, log, headers,
                   url, payload>>

TransportResponds == \E t \in TransportResponses : Dispatch(t)
TransportFails == \E t \in TransportFailures : Dispatch(t)

\* lines 149-160
Parse ==
    /\ pc = "parse"
    /\ pc' = "done"
    /\ outcome' = ParseResponse(response)
    /\ UNCHANGED <<parts, joined, method, uri, data, statuses, log, headers,
                   url, payload, wire, sink, response, answer>>

Next == Prepare \/ TransportResponds \/ TransportFails \/ Parse

Spec == Init /\ [][Next]_vars

----------------------------------------------------------------------------
(* The state machine of one urljoin() *)

CallIdle ==
    /\ method = "GET" /\ uri = None /\ data = DataNone /\ statuses = StatusesNone
    /\ log = FALSE /\ headers = "None" /\ pc = "idle" /\ url = None
    /\ payload = {} /\ wire = <<>> /\ sink = <<>> /\ response = NoResponse
    /\ answer = NoAnswer /\ outcome = Running

InitJoin ==
    /\ CallIdle
    /\ parts \in SeqsUpTo(Segments, MaxParts)
    /\ joined = NotRun

Join ==
    /\ joined = NotRun
    /\ joined' = urljoin(parts)
    /\ UNCHANGED <<parts, method, uri, data, statuses, log, headers, pc, url,
                   payload, wire, sink, response, answer, outcome>>

NextJoin == Join

SpecJoin == InitJoin /\ [][NextJoin]_vars

----------------------------------------------------------------------------
(* Vocabulary of the properties *)

Finished == pc = "done"
Dispatched == Len(wire) > 0
GotResponse == ~response.isNone
status == response.status_code
body == response.body

Returned == outcome.kind = "return"
Raised(type) == outcome.kind = "raise" /\ outcome.type = type

\* the body decodes to a JSON object whose errors array starts with a mapping
HasFirstError ==
    /\ body.t = "object" /\ body.hasErrors
    /\ Len(body.errors) > 0 /\ body.errors[1].t = "object"

\* a key of the parsed body (only a JSON object has keys)
HasKey(b, key) ==
    /\ b.t = "object"
    /\ IF key = "errors" THEN b.hasErrors ELSE b.hasData

IsJSON(b) == b.t \in {"object", "array", "string", "null"}

\* the statuses the default policy rejects
DefaultRejects(s) == 401 <= s /\ s <= 599

----------------------------------------------------------------------------
(* C1 *)

----------------------------------------------------------------------------
(* C2 *)

\* C2 as stated: with no acceptable-status set, a status up to 400 is never
\* rejected and every status from 401 upwards raises HTTPError with that code.
C2_AsStated ==
    (Finished /\ statuses.isNone /\ GotResponse)
    => IF status <= 400
       THEN ~Raised("HTTPError")
       ELSE Raised("HTTPError") /\ outcome.code = status

\* C2 amended: with no acceptable-status set, a status up to 400 or from 600
\* upwards is never rejected on its status, and every status in 401..599
\* raises HTTPError with that code and the transport's message.
C2_DefaultPolicy ==
    (Finished /\ statuses.isNone /\ GotResponse)
    => IF DefaultRejects(status)
       THEN /\ Raised("HTTPError") /\ outcome.code = status
            /\ outcome.details \in {ToString(status) \o " Client Error",
                                    ToString(status) \o " Server Error"}
       ELSE ~Raised("HTTPError")

C2_Witness ==
    /\ Finished /\ statuses.isNone /\ GotResponse /\ status = 599
    /\ body.t = "object" /\ body.hasData
    /\ Raised("HTTPError") /\ outcome.code = 599

----------------------------------------------------------------------------
(* C3 *)

\* C3: with an acceptable-status set supplied (the empty set included), a
\* status outside the set raises HTTPError with that code and the
\* unexpected-status message, and a status inside it is never rejected.
C3_SuppliedSetDecides ==
    (Finished /\ ~statuses.isNone /\ GotResponse)
    => IF status \notin statuses.set
       THEN /\ Raised("HTTPError") /\ outcome.code = status
            /\ outcome.details = "Unexpected Status Code " \o ToString(status)
       ELSE ~Raised("HTTPError")

----------------------------------------------------------------------------
(* C4 *)

\* C4 as stated: with a log sink, every dispatched call ends with exactly two
\* writes, the pre-request entry then the post-response entry.
C4_AsStated ==
    (Finished /\ log /\ Dispatched)
    => /\ Len(sink) = 2
       /\ sink[1].kind = "pre"
       /\ sink[2].kind = "post"

\* C4 amended: with a log sink, the pre-request entry is written before the
\* transport is invoked; a call that obtained a response has exactly the two
\* writes pre, post (with that response's status) on every exit path; a call
\* whose transport failed without a response has the pre-request entry, no
\* post-response entry, and the failure's message when the failure was not an
\* HTTP-status failure.
C4_TwoWritesWithResponse ==
    /\ (log /\ pc = "dispatch") => (Len(sink) = 1 /\ sink[1].kind = "pre" /\ ~Dispatched)
    /\ (log /\ Dispatched /\ GotResponse)
       => /\ Len(sink) = 2
          /\ sink[1].kind = "pre"
          /\ sink[2].kind = "post" /\ sink[2].status = status
    /\ (log /\ Dispatched /\ ~GotResponse)
       => /\ sink[1].kind = "pre"
          /\ \A k \in 1..Len(sink) : sink[k].kind # "post"
          /\ Len(sink) = IF answer.class = "exc.HTTPError" THEN 1 ELSE 2
    /\ ~log => Len(sink) = 0

C4_Witness ==
    /\ Finished /\ log /\ GotResponse /\ body.t = "undecodable"
    /\ Raised("HTTPError") /\ Len(sink) = 2 /\ sink[2].kind = "post"

----------------------------------------------------------------------------
(* C5 *)

\* C5: call() either returns or raises one of the typed errors.
C5_OnlyTypedErrors ==
    Finished => (Returned \/ (outcome.kind = "raise" /\ outcome.type \in TypedErrors))

----------------------------------------------------------------------------
(* C6 *)

\* the status policy in force accepts the status
Accepted ==
    IF statuses.isNone \/ statuses.set = {}
    THEN ~DefaultRejects(status)
    ELSE status \in statuses.set

\* C6: a normal return gives exactly the parsed body of the response, which
\* has a data key and no errors key, and the status passed the policy; a
\* parsed body with neither key raises BadResponseError carrying it; an error
\* carries no result.
C6_ReturnHasData ==
    /\ (Finished /\ Returned)
       => /\ GotResponse /\ Len(wire) = 1
          /\ outcome.json = body
          /\ HasKey(body, "data") /\ ~HasKey(body, "errors")
          /\ Accepted
    /\ (Finished /\ GotResponse /\ Accepted /\ IsJSON(body)
        /\ ~HasKey(body, "data") /\ ~HasKey(body, "errors"))
       => (Raised("BadResponseError") /\ outcome.json = body)

----------------------------------------------------------------------------
(* C7 *)

\* C7: a uri given as a sequence of segments is dispatched to the urljoin of
\* the segments in order; a str uri is dispatched unchanged.
C7_SegmentsJoined ==
    (Finished /\ NormalizeData(data).ok)
    => /\ Len(wire) = 1
       /\ wire[1].uri = IF uri.t = "str" THEN uri ELSE urljoin(uri.v)

----------------------------------------------------------------------------
(* C8 *)

NonEmpty(ps) == SelectSeq(ps, LAMBDA p : Len(p.v) > 0)

\* what segment i contributes when every junction gets exactly one '/'
Piece(segs, i) ==
    IF i = 1 THEN segs[1].v
    ELSE LET left == segs[i - 1].v[Len(segs[i - 1].v)] = "/"
             right == Head(segs[i].v) = "/"
         IN  IF left /\ right THEN Tail(segs[i].v)
             ELSE IF ~left /\ ~right THEN <<"/">> \o segs[i].v
             ELSE segs[i].v

RECURSIVE OneSlashJoin(_, _)
OneSlashJoin(segs, i) ==
    IF i > Len(segs) THEN <<>> ELSE Piece(segs, i) \o OneSlashJoin(segs, i + 1)

\* C8: urljoin skips empty segments and joins adjacent non-empty segments
\* with exactly one '/' at each junction; no segments give the empty string.
C8_ExactlyOneSlash ==
    joined # NotRun => joined = Str(OneSlashJoin(NonEmpty(parts), 1))

----------------------------------------------------------------------------
(* C9 *)

\* C9: a non-HTTP request failure raises BadResponseError without code or
\* details, after its message went to the log sink when there is one; an
\* HTTP-status failure of the transport raises HTTPError with the failing
\* response's status and the underlying message; an accepted response whose
\* body is not JSON raises BadJSONError with code '2608'.
C9_FailureClasses ==
    Finished =>
    /\ answer.class = "exc.RequestException"
       => /\ Raised("BadResponseError")
          /\ outcome.code = "None" /\ outcome.details = "None"
          /\ log => /\ Len(sink) = 2 /\ sink[2].kind = "message"
                    /\ sink[2].text = IF Len(answer.args) = 0 THEN ""
                                      ELSE answer.args[1]
    /\ answer.class = "exc.HTTPError"
       => /\ Raised("HTTPError")
          /\ outcome.code = answer.response.status_code
          /\ outcome.details = answer.args[1]
    /\ (answer.class = "Response" /\ Accepted /\ ~IsJSON(body))
       => Raised("BadJSONError") /\ outcome.code = "2608"

C9_Witness ==
    /\ Finished /\ answer.class = "exc.HTTPError"
    /\ Raised("HTTPError") /\ outcome.code = 404 /\ log /\ Len(sink) = 1

----------------------------------------------------------------------------
(* C10 *)

\* C10: a dispatched call invokes the transport exactly once; the
\* verb-specific function is used whenever the upper-cased method is GET, PUT
\* or POST, the generic function with the upper-cased name otherwise; the
\* normalized body and the headers are passed.
C10_VerbByUpperCase ==
    (Finished /\ Dispatched)
    => /\ Len(wire) = 1
       /\ wire[1].json = payload /\ wire[1].headers = headers
       /\ IF upper(method) \in DOMAIN request_methods
          THEN wire[1].fn = request_methods[upper(method)]
          ELSE wire[1].fn = "requests.request" /\ wire[1].method = upper(method)

====
